---- MODULE Spec2Model ----
(***************************************************************************)
(* Model of tsfc/coffee_mode.py: the argument-factorisation pass.          *)
(*                                                                         *)
(* A GEM expression is a record [name, free_indices, sums].  A terminal    *)
(* has sums = <<>>.  The node built by monomial_sum_to_expression has      *)
(* name "" and sums = one record [sum_indices, products] per IndexSum, a   *)
(* product being the sequence of factors handed to make_product.           *)
(* An index is a record [name, extent].  A Monomial is the named tuple     *)
(* [sum_indices, atomics, rest].                                           *)
(*                                                                         *)
(* The recursion optimise_monomials -> factorise_atomics ->                *)
(* optimise_monomials is kept as an explicit stack of frames (stack), the  *)
(* recursion of the closure solve as a second stack (sstack).              *)
(***************************************************************************)
EXTENDS Integers, Sequences, FiniteSets, Bags, TLC

VARIABLES
    argument_indices,  \* the argument indices of the call (a set)
    stack,             \* frames of optimise_monomials / factorise_atomics
    atomics,           \* find_optimal_atomics: de-duplicated atomics tuple
    optimal_solution,  \* find_optimal_atomics: best solution so far
    solution,          \* find_optimal_atomics: working solution
    it,                \* how many values the iterator `it` has handed out
    sstack,            \* frames of solve
    examined,          \* complete solutions whose cost has been compared
    seen_costs,        \* the seed's cost and the cost of every examined one
    last_cost,         \* cost of the complete solution examined last
    warned,            \* logger.warning was called
    failed,            \* the AssertionError raised, "" when none
    expressions,       \* optimise_expressions: its argument
    driver             \* optimise_expressions / optimise_monomial_sum

vars == <<argument_indices, stack, atomics, optimal_solution, solution, it,
          sstack, examined, seen_costs, last_cost, warned, failed,
          expressions, driver>>

search_vars == <<atomics, optimal_solution, solution, it, sstack, examined,
                 seen_costs, last_cost, warned>>

------------------------------------------------------------------------------
(* Bounds of the model *)

NumAtoms == 3
MaxAtomics == 2
MaxMonomials == 3
MaxExpressions == 2
MaxMonomialsFair == 2

(* max_it = 1 << 12 *)
MaxItShift == 12

max_it == 2 ^ MaxItShift

------------------------------------------------------------------------------
(* Expressions *)

Index(n, e) == [name |-> n, extent |-> e]

Terminal(n, fi) == [name |-> n, free_indices |-> fi, sums |-> <<>>]

one == Terminal("one", {})

Range(s) == {s[n] : n \in DOMAIN s}

RECURSIVE SeqSum(_)
SeqSum(s) == IF s = <<>> THEN 0 ELSE Head(s) + SeqSum(Tail(s))

RECURSIVE Flatten(_)
Flatten(ss) == IF ss = <<>> THEN <<>> ELSE Head(ss) \o Flatten(Tail(ss))

(* the elements of s at the positions I, in the order of s *)
SelectAt(s, I) ==
    [k \in 1..Cardinality(I) |->
        s[CHOOSE n \in I : Cardinality({m \in I : m <= n}) = k]]

(* first-seen order, duplicates dropped: tuple(OrderedDict.fromkeys(...)) *)
Dedup(s) ==
    SelectAt(s, {n \in 1..Len(s) : \A m \in 1..(n - 1) : s[m] # s[n]})

Monomial(si, as, r) == [sum_indices |-> si, atomics |-> as, rest |-> r]

------------------------------------------------------------------------------
(* index_extent and the cost of a solution *)

RECURSIVE ExtentProd(_)
ExtentProd(I) ==
    IF I = {} THEN 1
    ELSE LET x == CHOOSE y \in I : TRUE IN x.extent * ExtentProd(I \ {x})

index_extent(factor, arg_indices) ==
    ExtentProd({x \in factor.free_indices : x \in arg_indices})

(* the sum of the extents over a solution: the function is a bag whose *)
(* cardinality is the sum of its values (an extent is at least 1)       *)
ExtentSum(S, arg_indices) ==
    BagCardinality([a \in S |-> index_extent(a, arg_indices)])

(* cost(solution): (len(solution), -extent) *)
cost(sol, arg_indices) == <<Cardinality(sol), 0 - ExtentSum(sol, arg_indices)>>

(* Python's < on pairs *)
TupleLess(c, d) == c[1] < d[1] \/ (c[1] = d[1] /\ c[2] < d[2])

------------------------------------------------------------------------------
(* Frames *)

Top == stack[Len(stack)]

SetTop(f) == [stack EXCEPT ![Len(stack)] = f]

STop == sstack[Len(sstack)]

Frame(ms, p) ==
    [monomials |-> ms, pc |-> p, optimal_atomics |-> <<>>,
     sum_indices |-> <<>>, groups |-> <<>>, gi |-> 0,
     new_monomials |-> <<>>, result |-> <<>>]

SolveFrame(idx, sol) ==
    [idx_in |-> idx, idx |-> idx, k |-> 0, pc |-> "enter", entry_solution |-> sol]

------------------------------------------------------------------------------
(* find_optimal_atomics *)

(* a while loop that takes any non-empty solution for a hit *)
RECURSIVE SolveSkipNonEmpty(_, _, _)
SolveSkipNonEmpty(ms, sol, idx) ==
    IF idx <= Len(ms) /\ sol # {}
    THEN SolveSkipNonEmpty(ms, sol, idx + 1)
    ELSE idx

(* the while loop of solve: skip the monomials the solution already hits *)
RECURSIVE SolveSkip(_, _, _)
SolveSkip(ms, sol, idx) ==
    IF idx <= Len(ms) /\ (sol \cap Range(ms[idx].atomics)) # {}
    THEN SolveSkip(ms, sol, idx + 1)
    ELSE idx

(* a pruning test that is off by one *)
MayBranchOffByOne(sol, best) == Cardinality(sol) + 1 < Cardinality(best)

(* the pruning test of solve *)
MayBranch(sol, best) == Cardinality(sol) < Cardinality(best)

(* a comparison of the sizes alone *)
ImprovesBySize(sol, best, arg_indices) == Cardinality(sol) < Cardinality(best)

(* the comparison made on a complete solution *)
Improves(sol, best, arg_indices) ==
    TupleLess(cost(sol, arg_indices), cost(best, arg_indices))

(* next(it) returns while range(max_it) has values left *)
HasNext(n) == n < max_it

(* next(it) placed before the comparison: nothing is compared once the *)
(* iterator is exhausted                                               *)
NewBestAfterNext(sol, best, n, arg_indices) ==
    IF n < max_it /\ TupleLess(cost(sol, arg_indices), cost(best, arg_indices))
    THEN sol ELSE best

(* optimal_solution after a complete solution was compared: the comparison *)
(* comes first, next(it) after it                                          *)
NewBest(sol, best, n, arg_indices) ==
    IF Improves(sol, best, arg_indices) THEN sol ELSE best

(* a loop that forgets solution.remove(atomic) *)
AfterReturnKeeps(sol, atomic) == sol

(* solution.remove(atomic), after the recursive solve has returned *)
AfterReturn(sol, atomic) == sol \ {atomic}

(* the tuple find_optimal_atomics returns *)
SelectOptimal(as, best) ==
    LET Keep(a) == a \in best IN SelectSeq(as, Keep)

(* the distinct atomics of the monomials, in first-seen order *)
DistinctAtomics(ms) ==
    Dedup(Flatten([n \in 1..Len(ms) |-> ms[n].atomics]))

(* find_optimal_atomics up to the call solve(0) *)
FindOptimalAtomics ==
    /\ failed = ""
    /\ stack # <<>>
    /\ Top.pc = "find"
    /\ atomics' = DistinctAtomics(Top.monomials)
    /\ optimal_solution' = Range(DistinctAtomics(Top.monomials))
    /\ seen_costs' = {cost(Range(DistinctAtomics(Top.monomials)), argument_indices)}
    /\ last_cost' = cost(Range(DistinctAtomics(Top.monomials)), argument_indices)
    /\ solution' = {}
    /\ it' = 0
    /\ examined' = 0
    /\ warned' = FALSE
    /\ sstack' = <<SolveFrame(1, {})>>
    /\ stack' = SetTop([Top EXCEPT !.pc = "solve"])
    /\ UNCHANGED <<argument_indices, failed, expressions, driver>>

(* solve(idx) reaches a monomial that is not hit: branch or prune *)
SolveBranch ==
    /\ failed = ""
    /\ stack # <<>> /\ Top.pc = "solve"
    /\ sstack # <<>> /\ STop.pc = "enter"
    /\ LET ms == Top.monomials
           idx == SolveSkip(ms, solution, STop.idx_in)
       IN /\ idx <= Len(ms)
          /\ sstack' = [sstack EXCEPT ![Len(sstack)] =
                [STop EXCEPT !.idx = idx,
                             !.k = 1,
                             !.pc = IF MayBranch(solution, optimal_solution)
                                       /\ Len(ms[idx].atomics) >= 1
                                    THEN "loop" ELSE "ret"]]
    /\ UNCHANGED <<argument_indices, stack, atomics, optimal_solution,
                   solution, it, examined, seen_costs, last_cost, warned,
                   failed, expressions, driver>>

(* solve(idx) with every monomial hit: compare the cost, then next(it) *)
SolveExamine ==
    /\ failed = ""
    /\ stack # <<>> /\ Top.pc = "solve"
    /\ sstack # <<>> /\ STop.pc = "enter"
    /\ LET ms == Top.monomials
           idx == SolveSkip(ms, solution, STop.idx_in)
       IN /\ idx > Len(ms)
          /\ optimal_solution' =
                NewBest(solution, optimal_solution, it, argument_indices)
          /\ examined' = examined + 1
          /\ seen_costs' = seen_costs \cup {cost(solution, argument_indices)}
          /\ last_cost' = cost(solution, argument_indices)
          /\ IF HasNext(it)
             THEN /\ it' = it + 1
                  /\ sstack' = [sstack EXCEPT ![Len(sstack)] =
                                    [STop EXCEPT !.idx = idx, !.pc = "ret"]]
                  /\ warned' = warned
             ELSE \* StopIteration unwinds solve; the except clause warns
                  /\ it' = it
                  /\ sstack' = <<>>
                  /\ warned' = TRUE
    /\ UNCHANGED <<argument_indices, stack, atomics, solution, failed,
                   expressions, driver>>

(* one iteration of the for loop of solve: add the atomic, recurse *)
SolveIter ==
    /\ failed = ""
    /\ stack # <<>> /\ Top.pc = "solve"
    /\ sstack # <<>> /\ STop.pc = "loop"
    /\ LET atomic == Top.monomials[STop.idx].atomics[STop.k]
       IN /\ solution' = solution \cup {atomic}
          /\ sstack' = Append(sstack, SolveFrame(STop.idx + 1, solution'))
    /\ UNCHANGED <<argument_indices, stack, atomics, optimal_solution, it,
                   examined, seen_costs, last_cost, warned, failed,
                   expressions, driver>>

(* solve returns; its caller removes the atomic and goes on with the loop *)
SolveReturn ==
    /\ failed = ""
    /\ stack # <<>> /\ Top.pc = "solve"
    /\ sstack # <<>> /\ STop.pc = "ret"
    /\ IF Len(sstack) = 1
       THEN /\ sstack' = <<>>
            /\ solution' = solution
       ELSE LET p == sstack[Len(sstack) - 1]
                as == Top.monomials[p.idx].atomics
            IN /\ solution' = AfterReturn(solution, as[p.k])
               /\ sstack' = [SubSeq(sstack, 1, Len(sstack) - 1)
                               EXCEPT ![Len(sstack) - 1] =
                                   [p EXCEPT !.k = p.k + 1,
                                             !.pc = IF p.k + 1 <= Len(as)
                                                    THEN "loop" ELSE "ret"]]
    /\ UNCHANGED <<argument_indices, stack, atomics, optimal_solution, it,
                   examined, seen_costs, last_cost, warned, failed,
                   expressions, driver>>

(* find_optimal_atomics returns; optimise_monomials goes on to factorise *)
FindOptimalReturn ==
    /\ failed = ""
    /\ stack # <<>> /\ Top.pc = "solve"
    /\ sstack = <<>>
    /\ stack' = SetTop([Top EXCEPT
                          !.optimal_atomics = SelectOptimal(atomics, optimal_solution),
                          !.pc = "factorise"])
    /\ UNCHANGED <<argument_indices, search_vars, failed, expressions, driver>>

------------------------------------------------------------------------------
(* monomial_sum_to_expression *)

(* groupby of gem.utils: the groups in the order their keys first appear; *)
(* ks[n] is the key of xs[n]                                             *)
groupby(xs, ks) ==
    LET keys == Dedup(ks)
    IN [g \in 1..Len(keys) |->
            [key |-> keys[g],
             items |-> SelectAt(xs, {n \in 1..Len(xs) : ks[n] = keys[g]})]]

ProductFreeIndices(factors) == UNION {f.free_indices : f \in Range(factors)}

(* one IndexSum(make_sum(products), sum_indices) per group, then make_sum *)
monomial_sum_to_expression(monomial_sum) ==
    LET groups == groupby(monomial_sum,
                [n \in 1..Len(monomial_sum) |-> Range(monomial_sum[n].sum_indices)])
        indexsums ==
            [g \in 1..Len(groups) |->
                LET monomials == groups[g].items
                IN [sum_indices |-> monomials[1].sum_indices,
                    products |-> [n \in 1..Len(monomials) |->
                        monomials[n].atomics \o <<monomials[n].rest>>]]]
    IN [name |-> "",
        free_indices |->
            UNION {UNION {ProductFreeIndices(indexsums[g].products[n]) :
                            n \in 1..Len(indexsums[g].products)}
                     \ Range(indexsums[g].sum_indices) : g \in 1..Len(indexsums)},
        sums |-> indexsums]

------------------------------------------------------------------------------
(* optimise_monomials and factorise_atomics *)

SameSumIndices(ms) ==
    Cardinality({Range(ms[n].sum_indices) : n \in 1..Len(ms)}) <= 1

(* group_key: the position in optimal_atomics of the first optimal atomic *)
(* the monomial holds, 0 when it holds none (the assert False)            *)
group_key(monomial, optimal_atomics) ==
    LET hits == {n \in 1..Len(optimal_atomics) :
                    optimal_atomics[n] \in Range(monomial.atomics)}
    IN IF hits = {} THEN 0
       ELSE CHOOSE n \in hits : \A m \in hits : n <= m

(* list.remove: the first occurrence goes *)
RemoveFirst(s, x) ==
    LET n == CHOOSE m \in 1..Len(s) : s[m] = x /\ \A l \in 1..(m - 1) : s[l] # x
    IN SubSeq(s, 1, n - 1) \o SubSeq(s, n + 1, Len(s))

(* a sub-monomial that keeps the sum indices of the group member *)
ResidualKeepsSumIndices(monomial, oa) ==
    Monomial(monomial.sum_indices, RemoveFirst(monomial.atomics, oa),
             monomial.rest)

(* the sub-monomial of a group member: the common factor removed *)
Residual(monomial, oa) ==
    Monomial(<<>>, RemoveFirst(monomial.atomics, oa), monomial.rest)

(* a new monomial whose node always becomes the rest *)
RebuildNodeAsRest(sum_indices, oa, sub_monomials, arg_indices) ==
    IF Len(sub_monomials) = 1
    THEN Monomial(sum_indices, <<oa>> \o sub_monomials[1].atomics,
                  sub_monomials[1].rest)
    ELSE Monomial(sum_indices, <<oa>>, monomial_sum_to_expression(sub_monomials))

(* the new monomial of a group, from its optimised sub-monomials *)
Rebuild(sum_indices, oa, sub_monomials, arg_indices) ==
    IF Len(sub_monomials) = 1
    THEN Monomial(sum_indices, <<oa>> \o sub_monomials[1].atomics,
                  sub_monomials[1].rest)
    ELSE LET node == monomial_sum_to_expression(sub_monomials)
         IN IF (arg_indices \cap node.free_indices) # {}
            THEN Monomial(sum_indices, <<oa, node>>, one)
            ELSE Monomial(sum_indices, <<oa>>, node)

(* optimise_monomials is entered: the assertion on the sum indices *)
OptimiseMonomials ==
    /\ failed = ""
    /\ stack # <<>> /\ Top.pc = "call"
    /\ IF SameSumIndices(Top.monomials)
       THEN /\ stack' = SetTop([Top EXCEPT !.pc = "find"])
            /\ failed' = failed
       ELSE /\ stack' = stack
            /\ failed' = "All monomials required to have same sum indices for factorisation"
    /\ UNCHANGED <<argument_indices, search_vars, expressions, driver>>

(* factorise_atomics up to the loop over the groups *)
FactoriseAtomics ==
    /\ failed = ""
    /\ stack # <<>> /\ Top.pc = "factorise"
    /\ LET ms == Top.monomials
           oas == Top.optimal_atomics
           Key(m) == group_key(m, oas)
           factor_group == groupby(ms, [n \in 1..Len(ms) |-> Key(ms[n])])
       IN IF oas = <<>> \/ Len(ms) <= 1
          THEN /\ stack' = SetTop([Top EXCEPT !.result = ms, !.pc = "ret"])
               /\ failed' = failed
          ELSE IF \E n \in 1..Len(ms) : Key(ms[n]) = 0
          THEN /\ stack' = stack
               /\ failed' = "Expect at least one optimal atomic per monomial."
          ELSE IF SeqSum([g \in 1..Len(factor_group) |->
                             Len(factor_group[g].items)]) # Len(ms)
          THEN /\ stack' = stack
               /\ failed' = "We should not drop monomials"
          ELSE /\ stack' = SetTop([Top EXCEPT
                        !.groups = [g \in 1..Len(factor_group) |->
                                      [oa |-> oas[factor_group[g].key],
                                       monomials |-> factor_group[g].items]],
                        !.sum_indices = ms[1].sum_indices,
                        !.new_monomials = <<>>,
                        !.gi = 1,
                        !.pc = "group"])
               /\ failed' = failed
    /\ UNCHANGED <<argument_indices, search_vars, expressions, driver>>

(* one group: build its sub-monomials and call optimise_monomials on them *)
FactoriseGroup ==
    /\ failed = ""
    /\ stack # <<>> /\ Top.pc = "group"
    /\ LET g == Top.groups[Top.gi]
           sub_monomials == [n \in 1..Len(g.monomials) |->
                                Residual(g.monomials[n], g.oa)]
       IN stack' = Append(SetTop([Top EXCEPT !.pc = "wait"]),
                          Frame(sub_monomials, "call"))
    /\ UNCHANGED <<argument_indices, search_vars, failed, expressions, driver>>

(* the recursive optimise_monomials returns: the group's new monomial *)
OptimiseReturn ==
    /\ failed = ""
    /\ Len(stack) > 1 /\ Top.pc = "ret"
    /\ LET p == stack[Len(stack) - 1]
           new == Append(p.new_monomials,
                         Rebuild(p.sum_indices, p.groups[p.gi].oa, Top.result,
                                 argument_indices))
       IN stack' = [SubSeq(stack, 1, Len(stack) - 1) EXCEPT ![Len(stack) - 1] =
                        IF p.gi < Len(p.groups)
                        THEN [p EXCEPT !.new_monomials = new, !.gi = p.gi + 1,
                                       !.pc = "group"]
                        ELSE [p EXCEPT !.new_monomials = new, !.result = new,
                                       !.pc = "ret"]]
    /\ UNCHANGED <<argument_indices, search_vars, failed, expressions, driver>>

------------------------------------------------------------------------------
(* optimise_expressions and optimise_monomial_sum *)

Failure == Terminal("Failure", {})

(* gem.node.traversal: every node reachable from the expressions *)
RECURSIVE Nodes(_)
Nodes(e) ==
    {e} \cup UNION {UNION {UNION {Nodes(f) : f \in Range(e.sums[g].products[n])} :
                              n \in 1..Len(e.sums[g].products)} :
                       g \in 1..Len(e.sums)}

traversal(exprs) == UNION {Nodes(exprs[n]) : n \in 1..Len(exprs)}

(* a loop over the expressions themselves, not over their nodes *)
HasFailureAtRoot(exprs) == \E n \in Range(exprs) : n.name = "Failure"

(* the loop that looks for a Failure node *)
HasFailure(exprs) == \E n \in traversal(exprs) : n.name = "Failure"

(* gem.refactorise.collect_monomials: one MonomialSum per expression; the *)
(* last factor of a product is its rest                                    *)
collect_monomials(exprs) ==
    [e \in 1..Len(exprs) |->
        Flatten([g \in 1..Len(exprs[e].sums) |->
            [n \in 1..Len(exprs[e].sums[g].products) |->
                LET p == exprs[e].sums[g].products[n]
                IN Monomial(exprs[e].sums[g].sum_indices,
                            SubSeq(p, 1, Len(p) - 1), p[Len(p)])]])]

OptimiseExpressions ==
    /\ failed = ""
    /\ driver.pc = "call"
    /\ IF HasFailure(expressions)
       THEN driver' = [driver EXCEPT !.result = expressions, !.pc = "done"]
       ELSE driver' = [driver EXCEPT
                         !.monomial_sums = collect_monomials(expressions),
                         !.ei = 1, !.pc = "sum"]
    /\ UNCHANGED <<argument_indices, stack, search_vars, failed, expressions>>

(* optimise_monomial_sum: group the monomials by their sum indices *)
OptimiseMonomialSum ==
    /\ failed = ""
    /\ driver.pc = "sum"
    /\ LET monomial_sum == driver.monomial_sums[driver.ei]
       IN driver' = [driver EXCEPT
                       !.groups = groupby(monomial_sum,
                            [n \in 1..Len(monomial_sum) |->
                                Range(monomial_sum[n].sum_indices)]),
                       !.gi = 1, !.new_monomials = <<>>, !.pc = "group"]
    /\ UNCHANGED <<argument_indices, stack, search_vars, failed, expressions>>

(* the call optimise_monomials(monomials, argument_indices) of one group *)
MonomialSumCall ==
    /\ failed = ""
    /\ driver.pc = "group"
    /\ driver.gi <= Len(driver.groups)
    /\ stack' = <<Frame(driver.groups[driver.gi].items, "call")>>
    /\ driver' = [driver EXCEPT !.pc = "wait"]
    /\ UNCHANGED <<argument_indices, search_vars, failed, expressions>>

(* new_monomials.extend(...); after the last group the expression is built *)
MonomialSumReturn ==
    /\ failed = ""
    /\ driver.pc = "wait"
    /\ Len(stack) = 1 /\ Top.pc = "ret"
    /\ stack' = <<>>
    /\ LET new == driver.new_monomials \o Top.result
           out == Append(driver.out, monomial_sum_to_expression(new))
       IN driver' =
            IF driver.gi < Len(driver.groups)
            THEN [driver EXCEPT !.new_monomials = new, !.gi = driver.gi + 1,
                                !.pc = "group"]
            ELSE IF driver.ei < Len(driver.monomial_sums)
            THEN [driver EXCEPT !.new_monomials = new, !.out = out,
                                !.ei = driver.ei + 1, !.pc = "sum"]
            ELSE [driver EXCEPT !.new_monomials = new, !.out = out,
                                !.result = out, !.pc = "done"]
    /\ UNCHANGED <<argument_indices, search_vars, failed, expressions>>

------------------------------------------------------------------------------
(* Inputs *)

ind_i == Index("i", 5)
ind_j == Index("j", 3)
ind_k == Index("k", 2)
ind_q == Index("q", 4)

AtomSeq ==
    <<Terminal("A", {ind_i}), Terminal("B", {ind_j}), Terminal("C", {ind_k}),
      Terminal("D", {ind_i, ind_j}), Terminal("E", {ind_q})>>

Atoms == {AtomSeq[n] : n \in 1..NumAtoms}

ArgumentIndices == {ind_i, ind_j, ind_k}

Rests == {one, Terminal("R", {ind_q})}

TuplesUpTo(S, n) == UNION {[1..m -> S] : m \in 0..n}

AtomsUpTo(n) == {AtomSeq[m] : m \in 1..n}

(* every tuple of distinct atoms: the optimal_atomics a caller may pass *)
DistinctTuples(S) ==
    {t \in TuplesUpTo(S, Cardinality(S)) :
        \A m, n \in DOMAIN t : m # n => t[m] # t[n]}

AtomicsTuples == TuplesUpTo(Atoms, MaxAtomics) \ {<<>>}

(* monomial lists for the search alone: rest and sum indices play no part *)
SearchMonomials == {Monomial(<<>>, as, one) : as \in AtomicsTuples}

SearchLists == TuplesUpTo(SearchMonomials, MaxMonomials) \ {<<>>}

(* n monomials with two atomics each, no atomic shared: 2^n complete solutions *)
BigAtom(n, e) == Terminal(ToString(n), {Index(ToString(n), e)})

BigList(n, e1, e2) ==
    [m \in 1..n |->
        Monomial(<<>>,
                 <<BigAtom(2 * m - 1, IF m = 1 THEN e1 ELSE 1),
                   BigAtom(2 * m, IF m = 1 THEN e2 ELSE 1)>>,
                 one)]

BigLists ==
    {BigList(n, e1, e2) : n \in {MaxItShift, MaxItShift + 1},
                          e1 \in 1..2, e2 \in 1..2}

AllFreeIndices(ms) ==
    UNION {UNION {a.free_indices : a \in Range(ms[n].atomics)} : n \in DOMAIN ms}

IdleDriver ==
    [pc |-> "idle", monomial_sums |-> <<>>, ei |-> 0, groups |-> <<>>,
     gi |-> 0, new_monomials |-> <<>>, out |-> <<>>, result |-> <<>>]

InitCommon ==
    /\ atomics = <<>>
    /\ optimal_solution = {}
    /\ solution = {}
    /\ it = 0
    /\ sstack = <<>>
    /\ examined = 0
    /\ seen_costs = {}
    /\ last_cost = <<0, 0>>
    /\ warned = FALSE
    /\ failed = ""

(* one call find_optimal_atomics(monomials, argument_indices) *)
InitSearch ==
    /\ InitCommon
    /\ \/ \E ms \in SearchLists :
            /\ stack = <<Frame(ms, "find")>>
            /\ argument_indices = ArgumentIndices
       \/ \E ms \in BigLists :
            /\ stack = <<Frame(ms, "find")>>
            /\ argument_indices = AllFreeIndices(ms)
    /\ expressions = <<>>
    /\ driver = IdleDriver

MonomialsOver(sum_indices) ==
    {Monomial(sum_indices, as, one) : as \in AtomicsTuples}

SumIndicesChoices == {<<>>, <<ind_q>>}

(* one call optimise_monomials(monomials, argument_indices) *)
Init ==
    /\ InitCommon
    /\ \E si \in SumIndicesChoices :
         \E ms \in TuplesUpTo(MonomialsOver(si), MaxMonomials) \ {<<>>} :
            stack = <<Frame(ms, "call")>>
    /\ argument_indices = ArgumentIndices
    /\ expressions = <<>>
    /\ driver = IdleDriver

(* one call factorise_atomics(monomials, optimal_atomics, argument_indices) *)
FactInputs(atoms, max_monomials) ==
    LET monomials == {Monomial(<<ind_q>>, as, r) :
                        as \in TuplesUpTo(atoms, MaxAtomics) \ {<<>>}, r \in Rests}
    IN (TuplesUpTo(monomials, max_monomials) \ {<<>>}) \X DistinctTuples(atoms)

InitFact ==
    /\ InitCommon
    /\ \E in \in FactInputs(AtomsUpTo(NumAtoms), MaxMonomials - 1)
                  \cup FactInputs(AtomsUpTo(NumAtoms - 1), MaxMonomials) :
            stack = <<[Frame(in[1], "factorise") EXCEPT !.optimal_atomics = in[2]]>>
    /\ argument_indices \in {ArgumentIndices, ArgumentIndices \ {ind_k}}
    /\ expressions = <<>>
    /\ driver = IdleDriver

NextSearch ==
    \/ FindOptimalAtomics
    \/ SolveBranch
    \/ SolveExamine
    \/ SolveIter
    \/ SolveReturn
    \/ FindOptimalReturn

SpecSearch == InitSearch /\ [][NextSearch]_vars

Next ==
    \/ OptimiseMonomials
    \/ FindOptimalAtomics
    \/ SolveBranch
    \/ SolveExamine
    \/ SolveIter
    \/ SolveReturn
    \/ FindOptimalReturn
    \/ FactoriseAtomics
    \/ FactoriseGroup
    \/ OptimiseReturn

Spec == Init /\ [][Next]_vars

SpecFact == InitFact /\ [][Next]_vars

(* three monomials whose atomic sets are pairwise disjoint *)
DisjointLists(sum_indices) ==
    LET monomials == {Monomial(sum_indices, as, r) :
                        as \in TuplesUpTo(AtomsUpTo(NumAtoms + 1), MaxAtomics) \ {<<>>},
                        r \in Rests}
    IN {ms \in [1..3 -> monomials] :
            \A m, n \in 1..3 :
                m # n => (Range(ms[m].atomics) \cap Range(ms[n].atomics)) = {}}

InitDisjoint ==
    /\ InitCommon
    /\ \E ms \in DisjointLists(<<ind_q>>) : stack = <<Frame(ms, "call")>>
    /\ argument_indices = ArgumentIndices
    /\ expressions = <<>>
    /\ driver = IdleDriver

SpecDisjoint == InitDisjoint /\ [][Next]_vars

(* expressions A*B*r + IndexSum(A*x, sum_indices), r possibly a Failure *)
ExprMenu ==
    {monomial_sum_to_expression(
        <<Monomial(<<>>, <<AtomSeq[1], AtomSeq[2]>>, r),
          Monomial(si, <<AtomSeq[1], x>>, one)>>) :
        r \in {one, Failure}, si \in SumIndicesChoices, x \in Atoms}

(* one call optimise_expressions(expressions, argument_indices) *)
InitExpr ==
    /\ InitCommon
    /\ stack = <<>>
    /\ argument_indices = ArgumentIndices
    /\ expressions \in TuplesUpTo(ExprMenu, MaxExpressions) \ {<<>>}
    /\ driver = [IdleDriver EXCEPT !.pc = "call"]

NextExpr ==
    \/ OptimiseExpressions
    \/ OptimiseMonomialSum
    \/ MonomialSumCall
    \/ MonomialSumReturn
    \/ Next

SpecExpr == InitExpr /\ [][NextExpr]_vars

(* one call optimise_monomials on at most MaxMonomialsFair monomials *)
InitFair ==
    /\ InitCommon
    /\ \E si \in SumIndicesChoices :
         \E ms \in TuplesUpTo(MonomialsOver(si), MaxMonomialsFair) \ {<<>>} :
            stack = <<Frame(ms, "call")>>
    /\ argument_indices = ArgumentIndices
    /\ expressions = <<>>
    /\ driver = IdleDriver

(* a call that is running keeps running: no step of it waits for anything *)
SpecFair == InitFair /\ [][Next]_vars /\ WF_vars(Next)

------------------------------------------------------------------------------
(* Expansion of monomials into plain products of terminals *)

Term(si, bag) == [si |-> si, bag |-> bag]

Cross(ts, us) ==
    Flatten([n \in 1..Len(ts) |->
                [m \in 1..Len(us) |->
                    Term(ts[n].si \o us[m].si, ts[n].bag (+) us[m].bag)]])

RECURSIVE ExprTerms(_)
RECURSIVE ProductTerms(_)

(* a terminal is itself (one is dropped); a node is the list of its products *)
ExprTerms(e) ==
    IF e.name # ""
    THEN <<Term(<<>>, IF e = one THEN EmptyBag ELSE SetToBag({e}))>>
    ELSE Flatten([g \in 1..Len(e.sums) |->
            Flatten([n \in 1..Len(e.sums[g].products) |->
                LET ts == ProductTerms(e.sums[g].products[n])
                IN [m \in 1..Len(ts) |->
                        Term(e.sums[g].sum_indices \o ts[m].si, ts[m].bag)]])])

ProductTerms(factors) ==
    IF factors = <<>> THEN <<Term(<<>>, EmptyBag)>>
    ELSE Cross(ExprTerms(Head(factors)), ProductTerms(Tail(factors)))

MonomialTerms(m) ==
    LET ts == ProductTerms(m.atomics \o <<m.rest>>)
    IN [n \in 1..Len(ts) |-> Term(m.sum_indices \o ts[n].si, ts[n].bag)]

ListTerms(ms) == Flatten([n \in 1..Len(ms) |-> MonomialTerms(ms[n])])

Count(s, x) == Cardinality({n \in 1..Len(s) : s[n] = x})

SameMultiset(s, t) ==
    /\ Len(s) = Len(t)
    /\ \A n \in 1..Len(s) : Count(s, s[n]) = Count(t, s[n])

Returned == stack # <<>> /\ Top.pc = "ret"

------------------------------------------------------------------------------
(* C1: whenever factorise_atomics returns, expanding its output monomials *)
(* into plain products gives the multiset of its input monomials: as many  *)
(* terms, each with the sum indices, the atomics and the rest of one input *)
(* monomial.                                                               *)
C1_NoMonomialLoss ==
    Returned => SameMultiset(ListTerms(Top.result), ListTerms(Top.monomials))

(* a call that grouped at least two monomials under one atomic and put   *)
(* their residual sum into the new monomial has returned                  *)
C1_Witness ==
    /\ Returned
    /\ Len(stack) = 1
    /\ Len(Top.monomials) >= 2
    /\ Len(Top.result) < Len(Top.monomials)
    /\ \E n \in 1..Len(Top.result) : Top.result[n].rest.name = ""

------------------------------------------------------------------------------
(* Shared notions of the properties below *)

AllAtomics(ms) == UNION {Range(ms[n].atomics) : n \in 1..Len(ms)}

Hits(H, ms) == \A n \in 1..Len(ms) : (H \cap Range(ms[n].atomics)) # {}

EachHasAtomic(ms) == \A n \in 1..Len(ms) : Len(ms[n].atomics) >= 1

(* find_optimal_atomics has just returned to optimise_monomials *)
Found == stack # <<>> /\ Top.pc = "factorise" /\ atomics # <<>>

Done == failed # "" \/ (Len(stack) = 1 /\ Top.pc = "ret")

------------------------------------------------------------------------------
(* C2: the tuple find_optimal_atomics returns for monomials that each have *)
(* an atomic is duplicate-free, lies within the monomials' atomics and     *)
(* holds an atomic of every monomial, whether or not the search was cut.   *)
C2_HittingSet ==
    (Found /\ EachHasAtomic(Top.monomials)) =>
        /\ \A m, n \in 1..Len(Top.optimal_atomics) :
                m # n => Top.optimal_atomics[m] # Top.optimal_atomics[n]
        /\ Range(Top.optimal_atomics) \subseteq AllAtomics(Top.monomials)
        /\ Hits(Range(Top.optimal_atomics), Top.monomials)

(* a search that was cut off has returned fewer atomics than the seed *)
C2_Witness ==
    /\ Found
    /\ warned
    /\ Len(Top.optimal_atomics) < Len(atomics)

------------------------------------------------------------------------------
(* C3: when the budget is not exhausted, no hitting set of the monomial   *)
(* list costs less than the returned tuple: none has fewer atomics, none   *)
(* of the same size has a larger extent sum.                               *)
C3_Minimal ==
    (Found /\ ~warned) =>
        \A H \in SUBSET AllAtomics(Top.monomials) :
            Hits(H, Top.monomials) =>
                ~TupleLess(cost(H, argument_indices),
                           cost(Range(Top.optimal_atomics), argument_indices))

(* a search that pruned, whose result beats another hitting set of the same *)
(* size by its extent                                                      *)
C3_Witness ==
    /\ Found /\ ~warned
    /\ Len(stack) = 1
    /\ examined >= 2
    /\ Len(Top.optimal_atomics) < Len(atomics)
    /\ \E H \in SUBSET AllAtomics(Top.monomials) :
          /\ Hits(H, Top.monomials)
          /\ Cardinality(H) = Len(Top.optimal_atomics)
          /\ TupleLess(cost(Range(Top.optimal_atomics), argument_indices),
                       cost(H, argument_indices))

------------------------------------------------------------------------------
(* C4: with a Failure node anywhere in the expressions, optimise_expressions *)
(* returns its argument and never collects monomials, searches or rewrites. *)
ContainsFailure(exprs) ==
    \E n \in 1..Len(exprs) : Failure \in Nodes(exprs[n])

C4_FailFast ==
    ContainsFailure(expressions) =>
        /\ driver.pc \in {"call", "done"}
        /\ driver.pc = "done" => driver.result = expressions
        /\ driver.monomial_sums = <<>> /\ driver.out = <<>>
        /\ stack = <<>> /\ sstack = <<>> /\ atomics = <<>> /\ examined = 0

(* a batch of two expressions, the Failure in the second only, has returned *)
C4_Witness ==
    /\ driver.pc = "done"
    /\ Len(expressions) = 2
    /\ ~ContainsFailure(<<expressions[1]>>)
    /\ ContainsFailure(<<expressions[2]>>)

------------------------------------------------------------------------------
(* C5: a search that runs out of budget does not fail: it warns and returns *)
(* the cheapest of the seed and of every complete solution examined, the    *)
(* one examined at the step that exhausts the budget included.             *)
C5_BestSoFar ==
    warned =>
        /\ failed = ""
        /\ sstack = <<>>
        /\ Found =>
            LET c == cost(Range(Top.optimal_atomics), argument_indices)
            IN /\ c \in seen_costs
               /\ \A d \in seen_costs : ~TupleLess(d, c)

(* the result holds the second atomic of the first monomial: with two     *)
(* atomics per monomial that solution is the one examined last             *)
C5_Witness ==
    /\ Found /\ warned
    /\ examined = max_it + 1
    /\ Top.monomials[1].atomics[2] \in Range(Top.optimal_atomics)
    /\ cost(Range(Top.optimal_atomics), argument_indices) = last_cost

------------------------------------------------------------------------------
(* C6: at most max_it = 4096 complete solutions have their cost compared  *)
(* in one call of find_optimal_atomics.                                    *)
C6_AtMostMaxIt == examined <= max_it

------------------------------------------------------------------------------
(* C7: m1 = ((), [A, B], 1), m2 = ((), [A, C], 1), extents 5, 3, 2.        *)

ScenarioA == AtomSeq[1]
ScenarioB == AtomSeq[2]
ScenarioC == AtomSeq[3]

ScenarioInput ==
    <<Monomial(<<>>, <<ScenarioA, ScenarioB>>, one),
      Monomial(<<>>, <<ScenarioA, ScenarioC>>, one)>>

(* the sum node B + C *)
ScenarioSum ==
    [name |-> "",
     free_indices |-> {ind_j, ind_k},
     sums |-> <<[sum_indices |-> <<>>,
                 products |-> <<<<ScenarioB, one>>, <<ScenarioC, one>>>>]>>]

ScenarioReturned ==
    Len(stack) = 1 /\ Top.pc = "ret" /\ Top.monomials = ScenarioInput

(* C7 as stated: the result is the one monomial ((), [A], B + C).         *)
C7_Original ==
    ScenarioReturned =>
        /\ Top.optimal_atomics = <<ScenarioA>>
        /\ Top.result = <<Monomial(<<>>, <<ScenarioA>>, ScenarioSum)>>

(* C7 amended: find_optimal_atomics returns (A,) and the result is the one *)
(* monomial ((), [A, B + C], one): the sum node has argument indices among *)
(* its free indices, so it is kept as an atomic and the rest is one.       *)
C7_Scenario ==
    ScenarioReturned =>
        /\ Top.optimal_atomics = <<ScenarioA>>
        /\ Top.result = <<Monomial(<<>>, <<ScenarioA, ScenarioSum>>, one)>>
        /\ index_extent(ScenarioA, argument_indices) = 5
        /\ index_extent(ScenarioB, argument_indices) = 3
        /\ index_extent(ScenarioC, argument_indices) = 2

C7_Witness == ScenarioReturned /\ Len(Top.result) = 1

------------------------------------------------------------------------------
(* C8: three monomials with pairwise disjoint atomic sets.                 *)

DisjointReturned ==
    /\ Len(stack) = 1 /\ Top.pc = "ret"
    /\ Len(Top.monomials) = 3
    /\ EachHasAtomic(Top.monomials)
    /\ \A m, n \in 1..3 :
          m # n => (Range(Top.monomials[m].atomics)
                      \cap Range(Top.monomials[n].atomics)) = {}

------------------------------------------------------------------------------
(* C9: in a call of optimise_monomials on monomials that each have an     *)
(* atomic, group_key never reaches its assert False, in the recursive      *)
(* calls on the residual monomials neither.                                *)
C9_AssertNotReached ==
    (Len(stack) >= 1 /\ EachHasAtomic(stack[1].monomials)) =>
        failed # "Expect at least one optimal atomic per monomial."

------------------------------------------------------------------------------
(* C10: optimise_monomials terminates; solve recurses on a larger idx and *)
(* returns with the working solution it was entered with; the residual     *)
(* monomials have one atomic fewer each; the nesting of optimise_monomials *)
(* is at most the largest number of atomics of an input monomial plus one. *)

MaxLenAtomics(ms) ==
    CHOOSE l \in 0..(MaxAtomics + 1) :
        /\ \A n \in 1..Len(ms) : Len(ms[n].atomics) <= l
        /\ \E n \in 1..Len(ms) : Len(ms[n].atomics) = l

SolveIdxIncreases ==
    \A n \in 2..Len(sstack) :
        /\ sstack[n].idx_in > sstack[n - 1].idx
        /\ sstack[n - 1].idx >= sstack[n - 1].idx_in

SolveRestores ==
    (sstack # <<>> /\ STop.pc = "ret") => solution = STop.entry_solution

ResidualsShrink ==
    \A d \in 2..Len(stack) :
        LET g == stack[d - 1].groups[stack[d - 1].gi]
        IN /\ Len(stack[d].monomials) = Len(g.monomials)
           /\ \A n \in 1..Len(g.monomials) :
                Len(stack[d].monomials[n].atomics)
                    = Len(g.monomials[n].atomics) - 1

DepthBounded == Len(stack) <= MaxLenAtomics(stack[1].monomials) + 1

C10_Terminates ==
    /\ [](SolveIdxIncreases /\ SolveRestores /\ ResidualsShrink /\ DepthBounded)
    /\ <>Done

(* a call that recursed to the largest depth and returned a result *)
C10_Witness ==
    /\ Len(stack) = MaxLenAtomics(stack[1].monomials) + 1
    /\ Len(stack) >= 3
    /\ Top.pc = "ret"

====
